---- MODULE Spec2Model ----
(***************************************************************************)
(* Conway's Game of Life (life.py): the board transition update_board, the *)
(* pattern file codec save_pattern / load_pattern, and the event loop of   *)
(* main.                                                                   *)
(*                                                                         *)
(* A numpy array is a record [shape |-> <<rows, cols>>, data |-> f] with f *)
(* a function from <<row, col>> (0-indexed) to the cell value.  Arrays are *)
(* objects: the heap is a sequence of arrays and a reference is an index   *)
(* into it, so that aliasing and in-place writes are visible.              *)
(***************************************************************************)
EXTENDS Integers, Sequences, FiniteSets, TLC

VARIABLES
    heap,        \* the arrays alive in a direct use of update_board (the tests)
    refs,        \* refs[1]: the array passed in, refs[k+1]: the k-th result
    expect,      \* expect[k]: the value refs[k] was created with, plus the
                 \* in-place toggles made through refs[k] itself
    edits,       \* in-place toggles made so far on the arrays of the heap
    args,        \* the parsed command line: [width, height]
    board,       \* main's board
    generation,  \* main's generation
    paused,      \* main's paused
    running,     \* main's running
    pc,          \* where main is: "loop", "exited" or "crashed" ("idle": not run)
    file,        \* pattern.cells: [state, text]
    writable,    \* whether open('pattern.cells', 'w') succeeds
    printed,     \* what the last handler wrote to stdout
    ret,         \* how the last direct call of load_pattern ended
    last,        \* the last event handled, with the generation before it
    calls,       \* update_board calls made by main since the last
                 \* randomize, clear or load
    script       \* the lines the pattern file was written from

pureVars == <<heap, refs, expect, edits>>
hostVars == <<args, board, generation, paused, running, pc, file, writable,
              printed, ret, last, calls, script>>
vars == <<heap, refs, expect, edits, args, board, generation, paused, running, pc,
          file, writable, printed, ret, last, calls, script>>

----------------------------------------------------------------------------
(* Bounds of the model.                                                    *)

\* Largest board handed to update_board directly.
MaxRows == 3
MaxCols == 3

\* Largest board of the aliasing runs, and the in-place toggles made in one.
FrameRows == 2
FrameCols == 3
MaxEdits == 1

\* Largest side of the grid a blinker is placed on.
MaxBlinkerSide == 6

\* Most lines of a pattern file written by hand.
MaxLines == 3

\* Largest generation main is followed to.
MaxGen == 3

----------------------------------------------------------------------------
(* numpy arrays.                                                           *)

Cells(rows, cols) == (0 .. rows - 1) \X (0 .. cols - 1)

ndarray(rows, cols, f) == [shape |-> <<rows, cols>>, data |-> f]

CellsOf(a) == Cells(a.shape[1], a.shape[2])

\* Every array of the given shape with entries in {0, 1}.
Boards(rows, cols) ==
    { ndarray(rows, cols, f) : f \in [Cells(rows, cols) -> {0, 1}] }

\* np.zeros((rows, cols), dtype=int)
zeros(rows, cols) == ndarray(rows, cols, [p \in Cells(rows, cols) |-> 0])

\* create_board(rows, cols, random): the set of arrays it may return.
create_board(rows, cols, random) ==
    IF random THEN Boards(rows, cols) ELSE {zeros(rows, cols)}

\* new_board[mask] = v
setmask(a, mask, v) ==
    [a EXCEPT !.data = [p \in CellsOf(a) |-> IF mask[p] THEN v ELSE a.data[p]]]

\* new_board = board: a second name for the same object.
copy_alias(h, b) == [heap |-> h, ref |-> b]

\* board.copy(): a new array object holding the same values.
copy(h, b) == [heap |-> Append(h, h[b]), ref |-> Len(h) + 1]

----------------------------------------------------------------------------
(* scipy.signal.convolve2d(in1, kernel, mode='same', boundary=...).        *)

\* A kernel that counts the cell itself.
kernel_counting_centre == << <<1, 1, 1>>,
                             <<1, 1, 1>>,
                             <<1, 1, 1>> >>

kernel == << <<1, 1, 1>>,
             <<1, 0, 1>>,
             <<1, 1, 1>> >>

\* boundary='fill': zeros around the grid, no wraparound.
BoundaryFill == "fill"

\* The boundary argument update_board passes.
Boundary == "wrap"

\* An index one step outside 0..n-1 under circular boundary conditions.
Circular(i, n) == IF i < 0 THEN n + i ELSE IF i >= n THEN i - n ELSE i

\* in1[i0, i1] as the convolution reads it: outside the array the value is
\* the wrapped one ('wrap') or the fill value 0 ('fill').
Padded(in1, i0, i1, boundary) ==
    LET rows == in1.shape[1]
        cols == in1.shape[2]
        inside == i0 >= 0 /\ i0 < rows /\ i1 >= 0 /\ i1 < cols
    IN  IF inside THEN in1.data[<<i0, i1>>]
        ELSE IF boundary = "wrap"
             THEN in1.data[<<Circular(i0, rows), Circular(i1, cols)>>]
             ELSE 0

\* out[m, n] = sum over j, k of in2[j, k] * in1[m + 1 - j, n + 1 - k]: the
\* 'same' output is the centre of the full convolution with a 3x3 kernel.
convolve2d(in1, in2, boundary) ==
    LET term(m, n, j, k) ==
            in2[j + 1][k + 1] * Padded(in1, m + 1 - j, n + 1 - k, boundary)
        row(m, n, j) == term(m, n, j, 0) + term(m, n, j, 1) + term(m, n, j, 2)
    IN  [p \in CellsOf(in1) |->
            row(p[1], p[2], 0) + row(p[1], p[2], 1) + row(p[1], p[2], 2)]

----------------------------------------------------------------------------
(* update_board.                                                           *)

\* The rule without underpopulation.
DiesOverpopulatedOnly(n) == n > 3

\* Rule 1 & 3: (neighbor_count < 2) | (neighbor_count > 3)
Dies(n) == n < 2 \/ n > 3

\* Rule 4: neighbor_count == 3
Born(n) == n = 3

\* update_board(board) on heap h with board the reference b: the heap after
\* the call and the reference returned.
update_board(h, b) ==
    LET c == copy(h, b)
        new_board == c.ref
        h0 == c.heap
        neighbor_count == convolve2d(h0[b], kernel, Boundary)
        die == [p \in CellsOf(h0[b]) |->
                   h0[b].data[p] = 1
                   /\ Dies(neighbor_count[p])]
        h1 == [h0 EXCEPT ![new_board] = setmask(h0[new_board], die, 0)]
        born == [p \in CellsOf(h1[b]) |->
                    h1[b].data[p] = 0 /\ Born(neighbor_count[p])]
        h2 == [h1 EXCEPT ![new_board] = setmask(h1[new_board], born, 1)]
    IN  [heap |-> h2, ref |-> new_board]

\* The value update_board returns for an array held by nobody else.
NextBoard(a) ==
    LET r == update_board(<<a>>, 1) IN r.heap[r.ref]

----------------------------------------------------------------------------
(* Text: a string is a sequence of one-character strings.                  *)

Digits == <<"0", "1", "2", "3", "4", "5", "6", "7", "8", "9">>

IsDigit(ch) == \E d \in 1 .. 10 : Digits[d] = ch

DigitVal(ch) == (CHOOSE d \in 1 .. 10 : Digits[d] = ch) - 1

Whitespace == {" ", "\n", "\t", "\r"}

\* str(n) of an int, as an f-string formats it.
RECURSIVE str(_)
str(n) ==
    IF n < 0 THEN <<"-">> \o str(-n)
    ELSE IF n < 10 THEN <<Digits[n + 1]>>
    ELSE str(n \div 10) \o <<Digits[(n % 10) + 1]>>

\* s.strip()
RECURSIVE lstrip(_)
lstrip(s) ==
    IF s # <<>> /\ Head(s) \in Whitespace THEN lstrip(Tail(s)) ELSE s

RECURSIVE rstrip(_)
rstrip(s) ==
    IF s # <<>> /\ s[Len(s)] \in Whitespace
    THEN rstrip(SubSeq(s, 1, Len(s) - 1))
    ELSE s

strip(s) == rstrip(lstrip(s))

\* s.split(sep): the pieces between the separators, one more than there
\* are separators.  split_from scans from index i, the piece begun at start.
RECURSIVE split_from(_, _, _, _)
split_from(s, sep, start, i) ==
    IF i > Len(s) THEN <<SubSeq(s, start, Len(s))>>
    ELSE IF s[i] = sep
    THEN <<SubSeq(s, start, i - 1)>> \o split_from(s, sep, i + 1, i + 1)
    ELSE split_from(s, sep, start, i + 1)

split(s, sep) == split_from(s, sep, 1, 1)

\* The lines iterating over a text file yields: each ends with its "\n",
\* but for a last line the file does not end.
RECURSIVE readlines_from(_, _, _)
readlines_from(text, start, i) ==
    IF i > Len(text)
    THEN (IF start > Len(text) THEN <<>> ELSE <<SubSeq(text, start, Len(text))>>)
    ELSE IF text[i] = "\n"
    THEN <<SubSeq(text, start, i)>> \o readlines_from(text, i + 1, i + 1)
    ELSE readlines_from(text, start, i + 1)

readlines(text) == readlines_from(text, 1, 1)

\* The value of a run of digits and underscores, the underscores skipped.
RECURSIVE DecimalValue(_, _)
DecimalValue(s, acc) ==
    IF s = <<>> THEN acc
    ELSE IF Head(s) = "_" THEN DecimalValue(Tail(s), acc)
    ELSE DecimalValue(Tail(s), acc * 10 + DigitVal(Head(s)))

\* int(s) of a str: surrounding whitespace is dropped, one sign is allowed,
\* then digits, with single underscores between digits.  Anything else is a
\* ValueError.
int(s) ==
    LET t == strip(s)
        signed == t # <<>> /\ Head(t) \in {"+", "-"}
        body == IF signed THEN Tail(t) ELSE t
        wellformed ==
            /\ body # <<>>
            /\ IsDigit(body[1])
            /\ IsDigit(body[Len(body)])
            /\ \A i \in 1 .. Len(body) : IsDigit(body[i]) \/ body[i] = "_"
            /\ \A i \in 1 .. Len(body) - 1 :
                 ~(body[i] = "_" /\ body[i + 1] = "_")
    IN  IF ~wellformed THEN [ok |-> FALSE, value |-> 0]
        ELSE [ok |-> TRUE,
              value |-> IF signed /\ Head(t) = "-"
                        THEN 0 - DecimalValue(body, 0)
                        ELSE DecimalValue(body, 0)]

----------------------------------------------------------------------------
(* The grid of the running program.                                        *)

CELL_SIZE == 8

GRID_WIDTH == args.width \div CELL_SIZE
GRID_HEIGHT == args.height \div CELL_SIZE

\* a[i] on an axis of length n: a negative index counts from the end, and
\* an index outside -n..n-1 is an IndexError (no index).
NpIndex(i, n) ==
    IF 0 <= i /\ i < n THEN {i}
    ELSE IF 0 - n <= i /\ i < 0 THEN {i + n}
    ELSE {}

\* a[row, col] = v: the array after the assignment, or an IndexError.
setitem(a, row, col, v) ==
    LET r == NpIndex(row, a.shape[1])
        c == NpIndex(col, a.shape[2])
    IN  IF r = {} \/ c = {} THEN [ok |-> FALSE, array |-> a]
        ELSE [ok |-> TRUE,
              array |-> [a EXCEPT !.data[<<CHOOSE x \in r : TRUE,
                                           CHOOSE y \in c : TRUE>>] = v]]

----------------------------------------------------------------------------
(* save_pattern.                                                           *)

\* np.argwhere(board == 1): the <<row, col>> of the matching cells in
\* row-major order.
RECURSIVE argwhere_from(_, _)
argwhere_from(a, i) ==
    LET cols == a.shape[2]
        p == <<i \div cols, i % cols>>
    IN  IF i >= a.shape[1] * cols THEN <<>>
        ELSE (IF a.data[p] = 1 THEN <<p>> ELSE <<>>) \o argwhere_from(a, i + 1)

argwhere(a) == argwhere_from(a, 0)

\* f"{cell[0]},{cell[1]}\n": the row first.
FormatCellRowFirst(cell) == str(cell[1]) \o <<",">> \o str(cell[2]) \o <<"\n">>

\* f"{cell[1]},{cell[0]}\n" of a cell <<row, col>>: the column first.
FormatCell(cell) == str(cell[2]) \o <<",">> \o str(cell[1]) \o <<"\n">>

Header == <<"#", " ", "S", "a", "v", "e", "d", " ",
            "p", "a", "t", "t", "e", "r", "n", "\n">>

RECURSIVE WriteCells(_)
WriteCells(cells) ==
    IF cells = <<>> THEN <<>>
    ELSE FormatCell(Head(cells)) \o WriteCells(Tail(cells))

Line(text, arg) == [text |-> text, arg |-> arg]

\* save_pattern(board): the file and what is printed.  open(..., 'w')
\* truncates the file or creates it; when it raises IOError the file is as
\* it was.
save_pattern(b, f, canWrite) ==
    IF canWrite
    THEN [file |-> [state |-> IF f.state = "absent" THEN "readable" ELSE f.state,
                    text |-> Header \o WriteCells(argwhere(b))],
          printed |-> <<Line("Pattern saved to 'pattern.cells'", <<>>)>>]
    ELSE [file |-> f,
          printed |-> <<Line("Error: Could not save file.", <<>>)>>]

----------------------------------------------------------------------------
(* load_pattern.                                                           *)

\* row < GRID_HEIGHT and col < GRID_WIDTH: negative values pass.
InBoundsUpperOnly(row, col) == row < GRID_HEIGHT /\ col < GRID_WIDTH

\* 0 <= row < GRID_HEIGHT and 0 <= col < GRID_WIDTH
InBounds(row, col) ==
    0 <= row /\ row < GRID_HEIGHT /\ 0 <= col /\ col < GRID_WIDTH

\* An unpacking that takes the first two values and drops the rest.
UnpackFirstTwo(tokens) == Len(tokens) >= 2

\* col, row = ...: the unpacking takes exactly two values.
Unpack(tokens) == Len(tokens) = 2

\* col, row = map(int, line.split(',')): the pair, or a ValueError (a token
\* int() refuses, too few values or too many).
ParsePair(line) ==
    LET tokens == split(line, ",")
        ints == [i \in 1 .. Len(tokens) |-> int(tokens[i])]
    IN  IF Unpack(tokens) /\ \A i \in 1 .. Len(tokens) : ints[i].ok
        THEN [ok |-> TRUE, col |-> ints[1].value, row |-> ints[2].value]
        ELSE [ok |-> FALSE, col |-> 0, row |-> 0]

\* The body of "for line in f", from the lines left: the state after it is
\* [board, printed, raised].
RECURSIVE LoadLines(_, _)
LoadLines(lines, st) ==
    IF lines = <<>> \/ st.raised # "" THEN st
    ELSE
      LET line == strip(Head(lines))
          rest == Tail(lines)
          pair == ParsePair(line)
          set == setitem(st.board, pair.row, pair.col, 1)
      IN  IF line = <<>> \/ Head(line) = "#" THEN LoadLines(rest, st)
          ELSE IF ~pair.ok
          THEN LoadLines(rest,
                 [st EXCEPT !.printed =
                    Append(@, Line("Skipping invalid line: ", line))])
          ELSE IF ~InBounds(pair.row, pair.col) THEN LoadLines(rest, st)
          ELSE IF ~set.ok THEN [st EXCEPT !.raised = "IndexError"]
          ELSE LoadLines(rest, [st EXCEPT !.board = set.array])

\* load_pattern(): how the call ends.  [kind |-> "return", value, printed]
\* or [kind |-> "raise", exc, printed].  Only FileNotFoundError is caught
\* around open(); any other OSError of open() leaves the function.
load_pattern(f) ==
    LET new_board == zeros(GRID_HEIGHT, GRID_WIDTH)
        st == LoadLines(readlines(f.text),
                        [board |-> new_board, printed |-> <<>>, raised |-> ""])
    IN  CASE f.state = "absent" ->
               [kind |-> "return", value |-> new_board,
                printed |-> <<Line("Error: File 'pattern.cells' not found.", <<>>)>>]
          [] f.state = "unreadable" ->
               [kind |-> "raise", exc |-> "PermissionError", printed |-> <<>>]
          [] OTHER ->
               IF st.raised # ""
               THEN [kind |-> "raise", exc |-> st.raised, printed |-> st.printed]
               ELSE [kind |-> "return", value |-> st.board,
                     printed |-> Append(st.printed,
                        Line("Pattern loaded from 'pattern.cells'", <<>>))]

----------------------------------------------------------------------------
(* The idle host, for the specifications that call the functions directly. *)

NoArgs == [width |-> 0, height |-> 0]
NoFile == [state |-> "absent", text |-> <<>>]
NoEvent == [ev |-> "none"]
NoReturn == [kind |-> "none"]

HostIdleBut(l) ==
    /\ last = l
    /\ args = NoArgs
    /\ board = zeros(0, 0)
    /\ generation = 0
    /\ paused = TRUE
    /\ running = FALSE
    /\ pc = "idle"
    /\ file = NoFile
    /\ writable = FALSE
    /\ printed = <<>>
    /\ ret = NoReturn
    /\ calls = 0
    /\ script = <<>>

HostIdle == HostIdleBut(NoEvent)

----------------------------------------------------------------------------
(* Direct calls of update_board, as test_life.py makes them.               *)

\* A direct caller starts with one array, which nothing has toggled.
InitPure(a) ==
    /\ heap = <<a>>
    /\ refs = <<1>>
    /\ expect = <<a>>
    /\ edits = 0

InitStep ==
    /\ \E rows \in 1 .. MaxRows, cols \in 1 .. MaxCols :
         \E a \in Boards(rows, cols) : InitPure(a)
    /\ HostIdle

\* result = update_board(board)
Call ==
    /\ Len(refs) = 1
    /\ LET r == update_board(heap, refs[1])
       IN  /\ heap' = r.heap
           /\ refs' = Append(refs, r.ref)
           /\ expect' = Append(expect, r.heap[r.ref])
    /\ UNCHANGED <<edits, hostVars>>

\* result_phase_2 = update_board(result)
CallAgain ==
    /\ Len(refs) = 2
    /\ LET r == update_board(heap, refs[2])
       IN  /\ heap' = r.heap
           /\ refs' = Append(refs, r.ref)
           /\ expect' = Append(expect, r.heap[r.ref])
    /\ UNCHANGED <<edits, hostVars>>

\* a[row, col] = 1 - a[row, col] through the k-th reference, after the call.
Toggle ==
    /\ Len(refs) = 2
    /\ edits < MaxEdits
    /\ \E k \in 1 .. Len(refs) : \E p \in CellsOf(heap[refs[k]]) :
         /\ heap' = [heap EXCEPT ![refs[k]].data[p] = 1 - @]
         /\ expect' = [expect EXCEPT ![k].data[p] = 1 - @]
    /\ edits' = edits + 1
    /\ UNCHANGED <<refs, hostVars>>

NextStep == Call

SpecStep == InitStep /\ [][NextStep]_vars

InitFrame ==
    /\ \E rows \in 1 .. FrameRows, cols \in 1 .. FrameCols :
         \E a \in Boards(rows, cols) : InitPure(a)
    /\ HostIdle

NextFrame == Call \/ Toggle

SpecFrame == InitFrame /\ [][NextFrame]_vars

\* The smallest grid side the blinker's period is stated for (the 5x5 test).
MinBlinkerSide == 5

\* The cells of a board that are ALIVE.
Alive(a) == { p \in CellsOf(a) : a.data[p] = 1 }

\* The three cells of a line through (r, c), indices modulo the grid size.
Horizontal(rows, cols, r, c) == { <<r, (c + d) % cols>> : d \in {-1, 0, 1} }
Vertical(rows, cols, r, c) == { <<(r + d) % rows, c>> : d \in {-1, 0, 1} }

InitBlinker ==
    \E rows \in MinBlinkerSide .. MaxBlinkerSide,
       cols \in MinBlinkerSide .. MaxBlinkerSide :
      \E p \in Cells(rows, cols) :
        /\ InitPure(ndarray(rows, cols,
              [q \in Cells(rows, cols) |->
                 IF q \in Horizontal(rows, cols, p[1], p[2]) THEN 1 ELSE 0]))
        /\ HostIdleBut([ev |-> "blinker", row |-> p[1], col |-> p[2]])

NextBlinker == Call \/ CallAgain

SpecBlinker == InitBlinker /\ [][NextBlinker]_vars

----------------------------------------------------------------------------
(* Direct calls of save_pattern and load_pattern.                          *)

\* The grids the codec runs on: 2 rows x 3 columns, and 1 row x 11 columns
\* (two-digit columns).  Neither side is a multiple of CELL_SIZE.
SmallArgs == [width |-> 27, height |-> 19]
WideArgs == [width |-> 90, height |-> 9]

\* A line of a hand-written pattern file with what it is: blank, comment,
\* a pair of integers col,row, or malformed.
Entry(text, kind, col, row) ==
    [text |-> text, kind |-> kind, col |-> col, row |-> row]

Catalog ==
    { Entry(<<>>, "blank", 0, 0),
      Entry(<<" ">>, "blank", 0, 0),
      Entry(<<"#", " ", "c">>, "comment", 0, 0),
      Entry(<<"#", "1", ",", "0">>, "comment", 0, 0),
      Entry(<<"0", ",", "0">>, "pair", 0, 0),
      Entry(<<"1", ",", "0">>, "pair", 1, 0),
      Entry(<<"2", ",", "1">>, "pair", 2, 1),
      Entry(<<"0", ",", "1", " ">>, "pair", 0, 1),
      Entry(<<"x", ",", "1">>, "malformed", 0, 0),
      Entry(<<"1", ",", "x">>, "malformed", 0, 0),
      Entry(<<"1">>, "malformed", 0, 0),
      Entry(<<"1", ",", "0", ",", "1">>, "malformed", 0, 0),
      Entry(<<"1", ".", "5", ",", "0">>, "malformed", 0, 0),
      Entry(<<"1", ",">>, "malformed", 0, 0),
      Entry(<<"3", ",", "0">>, "pair", 3, 0),
      Entry(<<"0", ",", "2">>, "pair", 0, 2),
      Entry(<<"-", "1", ",", "0">>, "pair", 0 - 1, 0),
      Entry(<<"1", ",", "-", "1">>, "pair", 1, 0 - 1),
      Entry(<<"1", "2", ",", "1">>, "pair", 12, 1) }

RECURSIVE Scripts(_)
Scripts(n) ==
    IF n = 0 THEN {<<>>}
    ELSE LET shorter == Scripts(n - 1)
         IN  shorter \cup { Append(sc, e) : sc \in { x \in shorter : Len(x) = n - 1 },
                                             e \in Catalog }

RECURSIVE TextOf(_)
TextOf(sc) ==
    IF sc = <<>> THEN <<>> ELSE Head(sc).text \o <<"\n">> \o TextOf(Tail(sc))

CodecIdle ==
    /\ generation = 0
    /\ paused = TRUE
    /\ running = FALSE
    /\ pc = "idle"
    /\ printed = <<>>
    /\ ret = NoReturn
    /\ last = NoEvent
    /\ calls = 0

PureIdle == InitPure(zeros(0, 0))

\* pattern.cells is absent, or was written by hand and is readable, or
\* (the shortest ones) is there and cannot be opened for reading.
InitLoad ==
    /\ args = SmallArgs
    /\ board = zeros(GRID_HEIGHT, GRID_WIDTH)
    /\ writable = FALSE
    /\ \/ \E sc \in Scripts(1) :
            /\ script = sc
            /\ file = [state |-> "unreadable", text |-> TextOf(sc)]
       \/ script = <<>> /\ file = NoFile
       \/ \E sc \in Scripts(MaxLines) :
            /\ script = sc
            /\ file = [state |-> "readable", text |-> TextOf(sc)]
    /\ CodecIdle
    /\ PureIdle

\* load_pattern()
LoadCall ==
    /\ pc = "idle"
    /\ ret' = load_pattern(file)
    /\ printed' = ret'.printed
    /\ last' = [ev |-> "load", saved |-> (last.ev = "save" /\ last.ok)]
    /\ UNCHANGED <<args, board, generation, paused, running, pc, file,
                   writable, calls, script, pureVars>>

\* save_pattern(board)
SaveCall ==
    /\ pc = "idle"
    /\ LET r == save_pattern(board, file, writable)
       IN  /\ file' = r.file
           /\ printed' = r.printed
    /\ last' = [ev |-> "save", ok |-> writable]
    /\ UNCHANGED <<args, board, generation, paused, running, pc, ret,
                   writable, calls, script, pureVars>>

NextLoad == LoadCall

SpecLoad == InitLoad /\ [][NextLoad]_vars

\* Any board of the grid; pattern.cells is absent or holds an older pattern.
InitCodec ==
    /\ args \in {SmallArgs, WideArgs}
    /\ board \in Boards(GRID_HEIGHT, GRID_WIDTH)
    /\ writable \in BOOLEAN
    /\ script = <<>>
    /\ file \in {NoFile,
                 [state |-> "readable",
                  text |-> Header \o <<"0", ",", "0", "\n">>]}
    /\ CodecIdle
    /\ PureIdle

NextCodec == SaveCall \/ LoadCall

SpecCodec == InitCodec /\ [][NextCodec]_vars

----------------------------------------------------------------------------
(* main: one action per event handled in the for loop, and one for the     *)
(* rest of the loop body (the update when not paused, the loop test).      *)

\* A 2 x 2 grid in a window whose sides are not multiples of CELL_SIZE.
HostArgs == [width |-> 19, height |-> 19]

\* The pixels pygame.mouse.get_pos() is followed for: the first and the
\* last pixel of every cell column (row), and the last pixel of the window.
Pixels(size) ==
    { x \in 0 .. size - 1 : x % CELL_SIZE \in {0, CELL_SIZE - 1} } \cup {size - 1}

\* A click handler without the bounds test.
ClickAlwaysInBounds(row, col) == TRUE

\* 0 <= row < GRID_HEIGHT and 0 <= col < GRID_WIDTH, of a click
ClickInBounds(row, col) ==
    0 <= row /\ row < GRID_HEIGHT /\ 0 <= col /\ col < GRID_WIDTH

\* board[row, col] = 1 - board[row, col]: the array after it, or an
\* IndexError.
toggle(a, row, col) ==
    LET r == NpIndex(row, a.shape[1])
        c == NpIndex(col, a.shape[2])
    IN  IF r = {} \/ c = {} THEN [ok |-> FALSE, array |-> a]
        ELSE [ok |-> TRUE,
              array |-> [a EXCEPT !.data[<<CHOOSE x \in r : TRUE,
                                           CHOOSE y \in c : TRUE>>] = 1 - @]]

\* A load that leaves the counter alone.
GenerationKept(g) == g

\* generation = 0 after board = load_pattern()
GenerationAfterLoad(g) == 0

Event(ev) == [ev |-> ev, gen |-> generation]

InitHost ==
    /\ args = HostArgs
    /\ board = zeros(GRID_HEIGHT, GRID_WIDTH)
    /\ generation = 0
    /\ paused = TRUE
    /\ running = TRUE
    /\ pc = "loop"
    /\ file \in {NoFile,
                 [state |-> "unreadable", text |-> <<>>],
                 [state |-> "readable",
                  text |-> <<"1", ",", "0", "\n", "5", ",", "5", "\n", "?", "\n">>]}
    /\ writable \in BOOLEAN
    /\ printed = <<>>
    /\ ret = NoReturn
    /\ last = NoEvent
    /\ calls = 0
    /\ script = <<>>
    /\ PureIdle

hostFrame == <<args, writable, ret, script, pureVars>>

\* pygame.QUIT
Quit ==
    /\ pc = "loop"
    /\ running' = FALSE
    /\ printed' = <<>>
    /\ last' = Event("quit")
    /\ UNCHANGED <<board, generation, paused, pc, file, calls, hostFrame>>

\* K_SPACE
KeySpace ==
    /\ pc = "loop"
    /\ paused' = ~paused
    /\ printed' = <<>>
    /\ last' = Event("space")
    /\ UNCHANGED <<board, generation, running, pc, file, calls, hostFrame>>

\* K_n: a single step when paused, and no handler at all when running.
KeyN ==
    /\ pc = "loop"
    /\ IF paused
       THEN /\ generation < MaxGen
            /\ board' = NextBoard(board)
            /\ generation' = generation + 1
            /\ calls' = calls + 1
            /\ last' = Event("step")
       ELSE /\ last' = Event("n_running")
            /\ UNCHANGED <<board, generation, calls>>
    /\ printed' = <<>>
    /\ UNCHANGED <<paused, running, pc, file, hostFrame>>

\* K_r
KeyR ==
    /\ pc = "loop"
    /\ board' \in create_board(GRID_HEIGHT, GRID_WIDTH, TRUE)
    /\ generation' = 0
    /\ calls' = 0
    /\ printed' = <<>>
    /\ last' = Event("random")
    /\ UNCHANGED <<paused, running, pc, file, hostFrame>>

\* K_c
KeyC ==
    /\ pc = "loop"
    /\ board' \in create_board(GRID_HEIGHT, GRID_WIDTH, FALSE)
    /\ generation' = 0
    /\ calls' = 0
    /\ printed' = <<>>
    /\ last' = Event("clear")
    /\ UNCHANGED <<paused, running, pc, file, hostFrame>>

\* K_s
KeyS ==
    /\ pc = "loop"
    /\ LET r == save_pattern(board, file, writable)
       IN  /\ file' = r.file
           /\ printed' = r.printed
    /\ last' = Event("save")
    /\ UNCHANGED <<board, generation, paused, running, pc, calls, hostFrame>>

\* K_l: an exception load_pattern does not catch leaves main.
KeyL ==
    /\ pc = "loop"
    /\ LET r == load_pattern(file)
       IN  /\ printed' = r.printed
           /\ IF r.kind = "return"
              THEN /\ board' = r.value
                   /\ generation' = GenerationAfterLoad(generation)
                   /\ calls' = 0
                   /\ last' = Event("load")
                   /\ UNCHANGED pc
              ELSE /\ pc' = "crashed"
                   /\ last' = Event("load_raised")
                   /\ UNCHANGED <<board, generation, calls>>
    /\ UNCHANGED <<paused, running, file, hostFrame>>

\* MOUSEBUTTONDOWN at pixel (x, y): handled only when paused.
MouseDown ==
    /\ pc = "loop"
    /\ \E x \in Pixels(args.width), y \in Pixels(args.height) :
         LET col == x \div CELL_SIZE
             row == y \div CELL_SIZE
             inside == row \in 0 .. GRID_HEIGHT - 1 /\ col \in 0 .. GRID_WIDTH - 1
             t == toggle(board, row, col)
         IN  IF ~paused
             THEN /\ last' = Event("mouse_running")
                  /\ UNCHANGED <<board, pc>>
             ELSE /\ last' = Event(IF inside THEN "mouse_in" ELSE "mouse_out")
                  /\ IF ~ClickInBounds(row, col) THEN UNCHANGED <<board, pc>>
                     ELSE IF t.ok THEN board' = t.array /\ UNCHANGED pc
                     ELSE pc' = "crashed" /\ UNCHANGED board
    /\ printed' = <<>>
    /\ UNCHANGED <<generation, paused, running, file, calls, hostFrame>>

\* After the events of a frame: the update when not paused, the drawing
\* (which changes nothing here), and the test of "while running".
Frame ==
    /\ pc = "loop"
    /\ IF ~paused
       THEN /\ generation < MaxGen
            /\ board' = NextBoard(board)
            /\ generation' = generation + 1
            /\ calls' = calls + 1
            /\ last' = Event("frame_update")
       ELSE /\ last' = Event("frame")
            /\ UNCHANGED <<board, generation, calls>>
    /\ pc' = IF running THEN "loop" ELSE "exited"
    /\ printed' = <<>>
    /\ UNCHANGED <<paused, running, file, hostFrame>>

NextHost ==
    \/ Quit
    \/ KeySpace
    \/ KeyN
    \/ KeyR
    \/ KeyC
    \/ KeyS
    \/ KeyL
    \/ MouseDown
    \/ Frame

SpecHost == InitHost /\ [][NextHost]_vars

----------------------------------------------------------------------------
(* The Life rule as the claims state it.                                   *)

Offsets == ({-1, 0, 1} \X {-1, 0, 1}) \ {<<0, 0>>}

\* ALIVE cells of a over the 8 offsets at ((r+dr) mod rows, (c+dc) mod cols).
LifeCount(a, p) ==
    LET hit(o) == a.data[<<(p[1] + o[1]) % a.shape[1],
                           (p[2] + o[2]) % a.shape[2]>>] = 1
        RECURSIVE Count(_)
        Count(S) == IF S = {} THEN 0
                    ELSE LET o == CHOOSE x \in S : TRUE
                         IN  (IF hit(o) THEN 1 ELSE 0) + Count(S \ {o})
    IN  Count(Offsets)

LifeRule(s, n) ==
    IF s = 1 /\ (n < 2 \/ n > 3) THEN 0
    ELSE IF s = 0 /\ n = 3 THEN 1
    ELSE s

\* C1: update_board returns a board of the same dimensions whose every cell
\* is the Life next state of the input cell, the neighbours counted over the
\* 8 offsets with both indices taken modulo the grid size in the input as it
\* was passed, for every board of 1..MaxRows x 1..MaxCols.
C1_UpdateIsLife ==
    Len(refs) >= 2 =>
        LET in == expect[1]
            out == heap[refs[2]]
        IN  /\ out.shape = in.shape
            /\ DOMAIN out.data = CellsOf(in)
            /\ \A p \in CellsOf(in) :
                  out.data[p] = LifeRule(in.data[p], LifeCount(in, p))

\* A one-row board (every cell its own upper and lower neighbour) that the
\* update changed.
C1_Witness ==
    /\ Len(refs) >= 2
    /\ expect[1].shape[1] = 1
    /\ expect[1].shape[2] >= 2
    /\ heap[refs[2]] # expect[1]

\* C2: after new = update_board(board) the input holds the values it had,
\* new is another object, and a toggle made through either reference
\* changes that array alone.
C2_InputNotMutated ==
    /\ \A k \in 1 .. Len(refs) : heap[refs[k]] = expect[k]
    /\ Len(refs) >= 2 => refs[2] # refs[1]

\* The update changed the board and a toggle followed.
C2_Witness ==
    /\ Len(refs) = 2
    /\ edits = 1
    /\ NextBoard(expect[1]) # expect[1]
    /\ expect[2] # NextBoard(expect[1])

\* C8: a horizontal blinker anywhere on a grid of at least 5x5 becomes the
\* vertical line through its centre after one update and the horizontal
\* line again after two.
C8_BlinkerPeriod2 ==
    LET in == expect[1]
        rows == in.shape[1]
        cols == in.shape[2]
    IN  /\ Len(refs) >= 2 =>
              Alive(heap[refs[2]]) = Vertical(rows, cols, last.row, last.col)
        /\ Len(refs) >= 3 =>
              Alive(heap[refs[3]]) = Horizontal(rows, cols, last.row, last.col)

\* Both updates done on a blinker that straddles the left and top edges.
C8_Witness ==
    /\ Len(refs) = 3
    /\ last.row = 0
    /\ last.col = 0
    /\ Cardinality(Alive(heap[refs[2]])) = 3

LoneCell(a) == Cardinality(Alive(a)) = 1

\* C9 as stated: on every grid of positive dimensions a lone ALIVE cell
\* leaves an all-DEAD board.
C9_LoneCellDiesAnyGrid ==
    (Len(refs) >= 2 /\ LoneCell(expect[1])) =>
        Alive(heap[refs[2]]) = {}

\* C9, amended: on every grid with at least 2 rows and 2 columns, and on the
\* 1x1 grid, a lone ALIVE cell leaves an all-DEAD board.
C9_LoneCellDies ==
    LET rows == expect[1].shape[1]
        cols == expect[1].shape[2]
    IN  (/\ Len(refs) >= 2
         /\ LoneCell(expect[1])
         /\ (rows >= 2 /\ cols >= 2) \/ (rows = 1 /\ cols = 1)) =>
            Alive(heap[refs[2]]) = {}

\* A lone cell in a corner of a 2-row grid, after the update.
C9_Witness ==
    /\ Len(refs) >= 2
    /\ expect[1].shape[1] = 2
    /\ Alive(expect[1]) = {<<0, 0>>}
    /\ Alive(heap[refs[2]]) = {}

\* C3: load_pattern() right after a successful save_pattern(board) returns
\* a board of the grid whose ALIVE cells are exactly those of board.
C3_SaveLoadRoundTrip ==
    (last.ev = "load" /\ last.saved) =>
        /\ ret.kind = "return"
        /\ ret.value.shape = <<GRID_HEIGHT, GRID_WIDTH>>
        /\ Alive(ret.value) = Alive(board)

\* A board with a cell in a two-digit column and a second cell, saved and
\* loaded over an older pattern file.
C3_Witness ==
    /\ last.ev = "load"
    /\ last.saved
    /\ <<0, 10>> \in Alive(board)
    /\ Cardinality(Alive(board)) >= 2
    /\ <<0, 0>> \notin Alive(board)
    /\ ret.kind = "return"

\* C4 as stated: whatever the state of the pattern file, load_pattern
\* returns, and when the file could not be read what it returns is not a
\* board, so that the caller can tell the failure from a load.
C4_LoadFailureIsSignalled ==
    last.ev = "load" =>
        /\ ret.kind = "return"
        /\ file.state # "readable" =>
              ret.value \notin Boards(GRID_HEIGHT, GRID_WIDTH)

\* The coordinates the claims call in bounds.
InGrid(e) ==
    e.col >= 0 /\ e.col < GRID_WIDTH /\ e.row >= 0 /\ e.row < GRID_HEIGHT

Loaded == last.ev = "load" /\ file.state = "readable"

\* The warnings due for the malformed lines of a script, in file order.
RECURSIVE Warnings(_)
Warnings(sc) ==
    IF sc = <<>> THEN <<>>
    ELSE (IF Head(sc).kind = "malformed"
          THEN <<Line("Skipping invalid line: ", Head(sc).text)>>
          ELSE <<>>) \o Warnings(Tail(sc))

\* C5: loading a readable file, every malformed line is reported by one
\* warning naming it, in file order, the load runs to its end, and the
\* ALIVE cells are exactly the in-bounds coordinates of the pair lines.
C5_MalformedLinesSkipped ==
    Loaded =>
        /\ ret.kind = "return"
        /\ printed = Warnings(script)
                       \o <<Line("Pattern loaded from 'pattern.cells'", <<>>)>>
        /\ Alive(ret.value) =
             { <<script[i].row, script[i].col>> :
                 i \in { k \in 1 .. Len(script) :
                           script[k].kind = "pair" /\ InGrid(script[k]) } }

\* A malformed line between two pair lines, both of which are loaded.
C5_Witness ==
    /\ Loaded
    /\ Len(script) = 3
    /\ script[2].kind = "malformed"
    /\ script[1].kind = "pair" /\ InGrid(script[1])
    /\ script[3].kind = "pair" /\ InGrid(script[3])
    /\ script[1].text # script[3].text
    /\ Cardinality(Alive(ret.value)) = 2

OutOfGrid(e) == e.kind = "pair" /\ ~InGrid(e)

\* C6: loading a readable file, a pair line outside the grid raises nothing
\* and prints nothing, no cell is ALIVE but those of the in-bounds pair
\* lines, and the in-bounds pair lines after it are ALIVE.
C6_OutOfBoundsDropped ==
    Loaded =>
        \A i \in 1 .. Len(script) :
            OutOfGrid(script[i]) =>
                /\ ret.kind = "return"
                /\ \A k \in 1 .. Len(printed) : printed[k].arg # script[i].text
                /\ \A p \in Alive(ret.value) :
                      \E j \in 1 .. Len(script) :
                          /\ script[j].kind = "pair"
                          /\ InGrid(script[j])
                          /\ p = <<script[j].row, script[j].col>>
                /\ \A j \in i + 1 .. Len(script) :
                      (script[j].kind = "pair" /\ InGrid(script[j])) =>
                          ret.value.data[<<script[j].row, script[j].col>>] = 1

\* A line with a negative column, then a line of the grid, which is loaded
\* alone.
C6_Witness ==
    /\ Loaded
    /\ Len(script) = 2
    /\ script[1].col < 0
    /\ script[2].kind = "pair" /\ InGrid(script[2])
    /\ Cardinality(Alive(ret.value)) = 1

C10_GenerationCountsUpdates ==
    /\ generation = calls
    /\ last.ev \in {"step", "frame_update"} => generation = last.gen + 1
    /\ last.ev \in {"random", "clear", "load"} => generation = 0
    /\ last.ev \in {"space", "save", "n_running", "mouse_in", "mouse_out",
                    "mouse_running", "quit", "frame"} =>
          generation = last.gen

\* A load after two updates: the counter is back at 0.
C10_Witness ==
    /\ last.ev = "load"
    /\ last.gen = 2
    /\ generation = 0

====
